---- MODULE Spec2Model ----
(***************************************************************************)
(* Model of pkg/validation/validate_cluster.go: one validation pass of a   *)
(* cluster (clusterValidatorImpl.Validate) over snapshots handed in by the *)
(* DNS resolver, the node list, the cloud inventory and the pod stream.    *)
(***************************************************************************)
EXTENDS Integers, Sequences, FiniteSets, TLC

VARIABLES
    cluster,                  \* v.cluster: [dns, provider]
    resolver,                 \* outcome of url.Parse / net.LookupHost for v.restConfig.Host
    allInstanceGroups,        \* v.allInstanceGroups: sequence of [Name, Role]
    filterInstanceGroups,     \* v.filterInstanceGroups: the set of group names it accepts
    filterPodsForValidation,  \* v.filterPodsForValidation: the set of pod keys it accepts
    nodeList,                 \* outcome of Nodes().List: [err, items: node name -> node]
    cloud,                    \* outcome of GetCloudGroups: [err, groups: key -> CloudInstanceGroup]
    podStream,                \* outcome of the pod pager: [pods, errAt]
    pc,                       \* position of Validate
    validation,               \* the ValidationCluster under construction: [Failures, Nodes]
    readyNodes,               \* validateNodes' first result (node names, in append order)
    nodeInstanceGroupMapping, \* validateNodes' second result: node name -> group name or Nil
    masterWithoutPod,         \* collectPodFailures: node name -> static pods not yet seen
    nodeByAddress,            \* collectPodFailures: address -> node name ("" when absent)
    podIdx,                   \* number of pods the pager has handed to the callback
    calls,                    \* collaborator calls made so far by this run
    ret,                      \* Validate's return value: [report, err]
    run,                      \* number of the current run of Validate over the snapshot
    prev                      \* return values of the earlier runs, oldest first

inputs == <<cluster, resolver, allInstanceGroups, filterInstanceGroups,
            filterPodsForValidation, nodeList, cloud, podStream>>
locals == <<validation, readyNodes, nodeInstanceGroupMapping, masterWithoutPod,
            nodeByAddress, podIdx>>
vars == <<inputs, locals, pc, calls, ret, run, prev>>

-----------------------------------------------------------------------------
(* Bounds of the model *)

MaxTarget == 2       \* TargetSize ranges over 0..MaxTarget
MaxReady == 2        \* longest Ready list of the widely varied group
MaxLinked == 2       \* longest Ready list of node-linked members
MaxPods == 3         \* longest stream of static-workload pods
MaxScanned == 1      \* longest stream of freely classified pods
MaxRuns == 2         \* runs of Validate over one snapshot

-----------------------------------------------------------------------------
(* Values *)

Nil == "nil"                  \* a nil pointer
NoError == ""                 \* a nil error
NoReport == <<>>              \* a nil *ValidationCluster; <<v>> is a pointer to v

PlaceholderIP == "203.0.113.123"
PlaceholderIPv6 == "fd00:dead:add::"
OtherIP == "198.51.100.7"

\* byte-wise order of the address strings, as sort.Strings compares them
AddrRank(h) ==
    CASE h = OtherIP -> 1
      [] h = PlaceholderIP -> 2
      [] h = PlaceholderIPv6 -> 3

InstanceGroupRoleBastion == "Bastion"
Roles == {"ControlPlane", "APIServer", "Node", InstanceGroupRoleBastion, "", "Edge"}

\* InstanceGroupRole.ToLowerString
ToLowerString(r) ==
    CASE r = "ControlPlane" -> "control-plane"
      [] r = "APIServer" -> "apiserver"
      [] r = "Node" -> "node"
      [] r = "Bastion" -> "bastion"
      [] r = "Edge" -> "edge"
      [] OTHER -> r

CloudInstanceStatusDetached == "Detached"
WarmPool == "WarmPool"

PodSucceeded == "Succeeded"
PodPending == "Pending"
PodUnknown == "Unknown"

masterStaticPods == <<"kube-apiserver", "kube-controller-manager", "kube-scheduler">>

Range(s) == {s[i] : i \in 1..Len(s)}

\* all orders in which a Go map with key set S can be ranged over
Perms(S) ==
    {s \in [1..Cardinality(S) -> S] : \A x \in S : \E i \in 1..Cardinality(S) : s[i] = x}

SeqsUpTo(S, n) == UNION {[1..k -> S] : k \in 0..n}

-----------------------------------------------------------------------------
(* ValidationCluster.addError *)

addError(v, failure) == [v EXCEPT !.Failures = Append(@, failure)]

ValidationError(kind, name, message, ig) ==
    [Kind |-> kind, Name |-> name, Message |-> message, InstanceGroup |-> ig]

-----------------------------------------------------------------------------
(* hasPlaceHolderIP *)

RECURSIVE Insert(_, _)
Insert(sorted, h) ==
    IF sorted = <<>> THEN <<h>>
    ELSE IF AddrRank(h) <= AddrRank(Head(sorted)) THEN <<h>> \o sorted
    ELSE <<Head(sorted)>> \o Insert(Tail(sorted), h)

RECURSIVE SortStrings(_)
SortStrings(s) == IF s = <<>> THEN <<>> ELSE Insert(SortStrings(Tail(s)), Head(s))

IsPlaceholderV4Only(h) == h = PlaceholderIP

IsPlaceholder(h) == h = PlaceholderIP \/ h = PlaceholderIPv6

RECURSIVE FirstPlaceholder(_)
FirstPlaceholder(hostAddrs) ==
    IF hostAddrs = <<>> THEN ""
    ELSE IF IsPlaceholder(Head(hostAddrs)) THEN Head(hostAddrs)
    ELSE FirstPlaceholder(Tail(hostAddrs))

hasPlaceHolderIP(r) ==
    IF ~r.parseOk THEN [val |-> "", err |-> "unable to parse Kubernetes cluster API URL"]
    ELSE IF ~r.lookupOk
      THEN [val |-> "", err |-> "unable to resolve Kubernetes cluster API URL dns"]
    ELSE [val |-> FirstPlaceholder(SortStrings(r.addrs)), err |-> NoError]

\* Validate's gate: !UsesLegacyGossip() && !UsesNoneDNS()
UsesDNS(c) == c.dns # "gossip" /\ c.dns # "none"

DnsMessage(dnsProvider, addr) ==
    "The " \o dnsProvider \o " Kubernetes deployment has not updated the Kubernetes cluster's API DNS entry: "
        \o addr

-----------------------------------------------------------------------------
(* validateNodes *)

isNodeReady(node) == node.Ready = "True"

getNodeReadyStatus(node) == node.Ready

ShouldValidateAlways(cloudGroup, shouldValidate) == TRUE

\* the negation of the `continue` condition at the head of the cloud-group loop
ShouldValidateCloudGroup(cloudGroup, shouldValidate) ==
    ~(cloudGroup.InstanceGroup # Nil /\ cloudGroup.InstanceGroup \notin shouldValidate)

allMembersOf(cloudGroup) == cloudGroup.Ready \o cloudGroup.NeedUpdate

CountAll(members) == Len(members)

RECURSIVE numNodesOf(_)
numNodesOf(members) ==
    IF members = <<>> THEN 0
    ELSE (IF Head(members).Status # CloudInstanceStatusDetached THEN 1 ELSE 0)
         + numNodesOf(Tail(members))

NotMoreThanTarget(numNodes, targetSize) == numNodes <= targetSize

BelowTarget(numNodes, targetSize) == numNodes < targetSize

IgnoresWarmPool(role, member) ==
    /\ role # InstanceGroupRoleBastion
    /\ member.Status # CloudInstanceStatusDetached

nodeExpectedToJoin(role, member) ==
    /\ role # InstanceGroupRoleBastion
    /\ member.State # WarmPool
    /\ member.Status # CloudInstanceStatusDetached

RecognizesBastion(role) == role \in {"control-plane", "apiserver", "node", "bastion"}

RecognizedRole(role) == role \in {"control-plane", "apiserver", "node"}

RoleOfGroup(groups, name) ==
    LET i == CHOOSE i \in 1..Len(groups) : groups[i].Name = name IN groups[i].Role

\* acc: [v, readyNodes, groupsSeen, mapping]; one iteration of the member loop
ValidateMember(acc, cloudGroup, member, groups, nodes) ==
    LET ig == cloudGroup.InstanceGroup
        igRole == RoleOfGroup(groups, ig)
    IN
    IF member.Node = Nil THEN
        IF nodeExpectedToJoin(igRole, member)
        THEN [acc EXCEPT !.v = addError(@, ValidationError("Machine", member.ID,
                 "machine \"" \o member.ID \o "\" has not yet joined cluster", ig))]
        ELSE acc
    ELSE
        LET node == nodes[member.Node]
            lower == ToLowerString(igRole)
            role == IF lower = "" THEN "node" ELSE lower
            n == [Name |-> member.Node, Role |-> role, Status |-> getNodeReadyStatus(node)]
            ready == isNodeReady(node)
            a1 == [acc EXCEPT !.mapping[member.Node] = ig,
                              !.readyNodes = IF ready THEN Append(@, member.Node) ELSE @]
        IN
        IF RecognizedRole(n.Role) THEN
            LET a2 == IF ~ready
                      THEN [a1 EXCEPT !.v = addError(@, ValidationError("Node", member.Node,
                               "node \"" \o member.Node \o "\" of role \"" \o n.Role
                                   \o "\" is not ready", ig))]
                      ELSE a1
            IN [a2 EXCEPT !.v.Nodes = Append(@, n)]
        ELSE a1

RECURSIVE ValidateMembers(_, _, _, _, _)
ValidateMembers(acc, cloudGroup, members, groups, nodes) ==
    IF members = <<>> THEN acc
    ELSE ValidateMembers(ValidateMember(acc, cloudGroup, Head(members), groups, nodes),
                         cloudGroup, Tail(members), groups, nodes)

\* one iteration of the cloud-group loop
ValidateCloudGroup(acc, cloudGroup, groups, shouldValidate, nodes) ==
    IF ~ShouldValidateCloudGroup(cloudGroup, shouldValidate) THEN acc
    ELSE
        LET ig == cloudGroup.InstanceGroup
            allMembers == allMembersOf(cloudGroup)
            numNodes == numNodesOf(allMembers)
            a1 == [acc EXCEPT !.groupsSeen = @ \cup {ig}]
            a2 == IF BelowTarget(numNodes, cloudGroup.TargetSize)
                  THEN [a1 EXCEPT !.v = addError(@, ValidationError("InstanceGroup", ig,
                           "InstanceGroup \"" \o ig \o "\" did not have enough nodes "
                               \o ToString(numNodes) \o " vs "
                               \o ToString(cloudGroup.TargetSize), ig))]
                  ELSE a1
        IN ValidateMembers(a2, cloudGroup, allMembers, groups, nodes)

RECURSIVE ValidateCloudGroups(_, _, _, _, _, _)
ValidateCloudGroups(acc, cloudGroups, order, groups, shouldValidate, nodes) ==
    IF order = <<>> THEN acc
    ELSE ValidateCloudGroups(
             ValidateCloudGroup(acc, cloudGroups[Head(order)], groups, shouldValidate, nodes),
             cloudGroups, Tail(order), groups, shouldValidate, nodes)

\* the closing loop over groups
RECURSIVE MissingGroups(_, _, _)
MissingGroups(acc, groups, shouldValidate) ==
    IF groups = <<>> THEN acc
    ELSE
        LET ig == Head(groups)
            a1 == IF ig.Name \in shouldValidate /\ ig.Name \notin acc.groupsSeen
                  THEN [acc EXCEPT !.v = addError(@, ValidationError("InstanceGroup", ig.Name,
                           "InstanceGroup \"" \o ig.Name \o "\" is missing from the cloud provider",
                           ig.Name))]
                  ELSE acc
        IN MissingGroups(a1, Tail(groups), shouldValidate)

\* validateNodes, ranging over the cloudGroups map in the given order
validateNodes(v, cloudGroups, order, groups, shouldValidate, nodes) ==
    LET acc0 == [v |-> v, readyNodes |-> <<>>, groupsSeen |-> {},
                 mapping |-> [n \in DOMAIN nodes |-> Nil]]
    IN MissingGroups(ValidateCloudGroups(acc0, cloudGroups, order, groups, shouldValidate, nodes),
                     groups, shouldValidate)

-----------------------------------------------------------------------------
(* collectPodFailures *)

\* m[k] of a Go map: the zero value when the key is absent
MapGet(m, k, zero) == IF k \in DOMAIN m THEN m[k] ELSE zero

MapPut(m, k, val) == [x \in DOMAIN m \cup {k} |-> IF x = k THEN val ELSE m[x]]

PodKey(pod) == pod.Namespace \o "/" \o pod.Name

RECURSIVE PutAddresses(_, _, _)
PutAddresses(byAddress, addresses, name) ==
    IF addresses = <<>> THEN byAddress
    ELSE PutAddresses(MapPut(byAddress, Head(addresses), name), Tail(addresses), name)

\* the loop over nodes that fills masterWithoutPod and nodeByAddress
RECURSIVE IndexNodes(_, _, _)
IndexNodes(maps, names, nodes) ==
    IF names = <<>> THEN maps
    ELSE
        LET name == Head(names)
            node == nodes[name]
            m1 == IF node.ControlPlaneLabel
                  THEN MapPut(maps.masterWithoutPod, name, Range(masterStaticPods))
                  ELSE maps.masterWithoutPod
        IN IndexNodes([masterWithoutPod |-> m1,
                       nodeByAddress |-> PutAddresses(maps.nodeByAddress, node.Addresses, name)],
                      Tail(names), nodes)

OnlyValidatedPodsCount(pod, podValidationFilter) ==
    pod.Namespace = "kube-system" /\ PodKey(pod) \in podValidationFilter

\* the namespace half of the condition under which a pod is struck off
CountsAsStaticPod(pod, podValidationFilter) == pod.Namespace = "kube-system"

\* the head of the callback: strike the pod's k8s-app off its node's pending set
StrikeStaticPod(mwp, byAddress, pod, podValidationFilter) ==
    LET host == MapGet(byAddress, pod.HostIP, "") IN
    IF CountsAsStaticPod(pod, podValidationFilter) /\ pod.App \in MapGet(mwp, host, {})
    THEN [mwp EXCEPT ![host] = @ \ {pod.App}]
    ELSE mwp

AnyPriority(priority) == TRUE

IsCriticalPriority(priority) ==
    ~(priority # "system-cluster-critical" /\ priority # "system-node-critical")

RECURSIVE notreadyOf(_)
notreadyOf(containerStatuses) ==
    IF containerStatuses = <<>> THEN <<>>
    ELSE (IF ~Head(containerStatuses).Ready THEN <<Head(containerStatuses).Name>> ELSE <<>>)
         \o notreadyOf(Tail(containerStatuses))

RECURSIVE Join(_, _)
Join(names, sep) ==
    IF names = <<>> THEN ""
    ELSE IF Len(names) = 1 THEN names[1]
    ELSE names[1] \o sep \o Join(Tail(names), sep)

\* the rest of the callback: the failure recorded for the pod, <<>> when none is
PodFailures(pod, podValidationFilter, byAddress, mapping) ==
    LET priority == pod.PriorityClassName
        podNode == IF priority = "system-node-critical"
                   THEN MapGet(mapping, MapGet(byAddress, pod.HostIP, ""), Nil)
                   ELSE Nil
        notready == notreadyOf(pod.ContainerStatuses)
    IN
    IF PodKey(pod) \notin podValidationFilter THEN <<>>
    ELSE IF ~IsCriticalPriority(priority) THEN <<>>
    ELSE IF pod.Phase = PodSucceeded THEN <<>>
    ELSE IF pod.Phase = PodPending
      THEN <<ValidationError("Pod", PodKey(pod),
               priority \o " pod \"" \o pod.Name \o "\" is pending", podNode)>>
    ELSE IF pod.Phase = PodUnknown
      THEN <<ValidationError("Pod", PodKey(pod),
               priority \o " pod \"" \o pod.Name \o "\" is unknown phase", podNode)>>
    ELSE IF Len(notready) # 0
      THEN <<ValidationError("Pod", PodKey(pod),
               priority \o " pod \"" \o pod.Name \o "\" is not ready ("
                   \o Join(notready, ",") \o ")", podNode)>>
    ELSE <<>>

MissingPodMessage(node, app) ==
    "control-plane node \"" \o node \o "\" is missing " \o app \o " pod"

MissingPodError(node, app, mapping) ==
    ValidationError("Node", node, MissingPodMessage(node, app), MapGet(mapping, node, Nil))

\* the orders in which the closing nested range over masterWithoutPod can visit
\* its (node, app) entries
RECURSIVE RangeOrders(_)
RangeOrders(mwp) ==
    IF DOMAIN mwp = {} THEN {<<>>}
    ELSE UNION {
        {[i \in 1..Len(apps) |-> <<node, apps[i]>>] \o rest :
            apps \in Perms(mwp[node]),
            rest \in RangeOrders([x \in DOMAIN mwp \ {node} |-> mwp[x]])}
        : node \in DOMAIN mwp}

RECURSIVE AddMissing(_, _, _)
AddMissing(v, entries, mapping) ==
    IF entries = <<>> THEN v
    ELSE AddMissing(addError(v, MissingPodError(Head(entries)[1], Head(entries)[2], mapping)),
                    Tail(entries), mapping)

-----------------------------------------------------------------------------
(* Validate's return statements *)

ReturnError(err) == [report |-> NoReport, err |-> err]

ReturnReport(v) == [report |-> <<v>>, err |-> NoError]

ReturnPartialReport(v, err) == [report |-> <<v>>, err |-> NoError]

\* `return nil, fmt.Errorf("cannot get pod health ...")`
ReturnPodError(v, err) == ReturnError("cannot get pod health: " \o err)

NotReturned == [report |-> NoReport, err |-> NoError]

EmptyValidation == [Failures |-> <<>>, Nodes |-> <<>>]

-----------------------------------------------------------------------------
(* The snapshots a run is given *)

NoStreamError == 0 - 1

Member(id, shape) ==
    [ID |-> id, Status |-> shape.Status, State |-> shape.State, Node |-> shape.Node]

MemberShape(status, state, node) == [Status |-> status, State |-> state, Node |-> node]

WithIDs(g, list, shapes) ==
    [i \in 1..Len(shapes) |-> Member("i-" \o g \o "-" \o list \o ToString(i), shapes[i])]

CloudGroup(g, targetSize, readyShapes, needUpdateShapes) ==
    [InstanceGroup |-> g, TargetSize |-> targetSize,
     Ready |-> WithIDs(g, "ready", readyShapes),
     NeedUpdate |-> WithIDs(g, "needupdate", needUpdateShapes)]

Node(ready, controlPlaneLabel, addresses) ==
    [Ready |-> ready, ControlPlaneLabel |-> controlPlaneLabel, Addresses |-> addresses]

PodShape(namespace, app, ip, accepted, priority, phase, containers) ==
    [Namespace |-> namespace, App |-> app, HostIP |-> ip, accepted |-> accepted,
     PriorityClassName |-> priority, Phase |-> phase, ContainerStatuses |-> containers]

PodsOf(shapes) ==
    [i \in 1..Len(shapes) |->
        [Namespace |-> shapes[i].Namespace, Name |-> "pod-" \o ToString(i),
         App |-> shapes[i].App, HostIP |-> shapes[i].HostIP,
         PriorityClassName |-> shapes[i].PriorityClassName, Phase |-> shapes[i].Phase,
         ContainerStatuses |-> shapes[i].ContainerStatuses]]

AcceptedOf(shapes) ==
    {PodKey(PodsOf(shapes)[i]) : i \in {j \in 1..Len(shapes) : shapes[j].accepted}}

\* the cloud groups present, keyed by group name
Groups(a, b) ==
    [g \in {x \in {"a", "b"} : (IF x = "a" THEN a ELSE b) # <<>>} |->
        IF g = "a" THEN a[1] ELSE b[1]]

Scenario(c, r, roleA, roleB, fig, nlErr, n1, n2, clErr, a, b, podShapes, errAt) ==
    [cluster |-> c, resolver |-> r,
     allInstanceGroups |-> <<[Name |-> "a", Role |-> roleA], [Name |-> "b", Role |-> roleB]>>,
     filterInstanceGroups |-> fig,
     filterPodsForValidation |-> AcceptedOf(podShapes),
     nodeList |-> [err |-> nlErr, items |-> [n \in {"n1", "n2"} |-> IF n = "n1" THEN n1 ELSE n2]],
     cloud |-> [err |-> clErr, groups |-> Groups(a, b)],
     podStream |-> [pods |-> PodsOf(podShapes), errAt |-> errAt]]

\* the validator is constructed over the snapshot sc
Load(sc) ==
    /\ cluster = sc.cluster
    /\ resolver = sc.resolver
    /\ allInstanceGroups = sc.allInstanceGroups
    /\ filterInstanceGroups = sc.filterInstanceGroups
    /\ filterPodsForValidation = sc.filterPodsForValidation
    /\ nodeList = sc.nodeList
    /\ cloud = sc.cloud
    /\ podStream = sc.podStream

Gossip == [dns |-> "gossip", provider |-> ""]
CleanResolver == [parseOk |-> TRUE, lookupOk |-> TRUE, addrs |-> <<OtherIP>>]
Normal == "Normal"
Linked(n) == MemberShape(Normal, Normal, n)
ReadyNode(ip) == Node("True", FALSE, <<ip>>)
ReadyMaster(ip) == Node("True", TRUE, <<ip>>)
IP1 == "10.0.0.1"
IP2 == "10.0.0.2"
Running == "Running"

\* DNS outcomes, with a failing node list or cloud inventory behind them
Resolvers ==
    {[parseOk |-> FALSE, lookupOk |-> FALSE, addrs |-> <<>>],
     [parseOk |-> TRUE, lookupOk |-> FALSE, addrs |-> <<>>]}
    \cup {[parseOk |-> TRUE, lookupOk |-> TRUE, addrs |-> s] :
            s \in UNION {Perms(S) : S \in SUBSET {OtherIP, PlaceholderIP, PlaceholderIPv6} \ {{}}}}

InitDns ==
    \E mode \in {"dns", "gossip", "none"}, provider \in {"", "dns-controller", "external-dns"},
        r \in Resolvers, nlErr \in BOOLEAN, clErr \in BOOLEAN :
        Load(Scenario([dns |-> mode, provider |-> provider], r, "ControlPlane", "Node", {"a", "b"},
                  nlErr, ReadyMaster(IP1), ReadyNode(IP2), clErr,
                  <<CloudGroup("a", 1, <<Linked("n1")>>, <<>>)>>,
                  <<CloudGroup("b", 1, <<Linked("n2")>>, <<>>)>>,
                  <<>>, NoStreamError))

\* group sizes and members that have not joined
UnjoinedShapes ==
    {MemberShape(status, state, Nil) :
        status \in {Normal, CloudInstanceStatusDetached}, state \in {Normal, WarmPool}}

InitSizing ==
    \E roleA \in {"Node", InstanceGroupRoleBastion},
        fig \in SUBSET {"a", "b"},
        a \in {<<>>} \cup
              {<<CloudGroup("a", t, r, n)>> :
                  t \in 0..MaxTarget,
                  r \in SeqsUpTo(UnjoinedShapes, MaxReady),
                  n \in SeqsUpTo(UnjoinedShapes, 1)},
        b \in {<<>>, <<CloudGroup("b", 1, <<>>, <<>>)>>} :
        Load(Scenario(Gossip, CleanResolver, roleA, "Node", fig, FALSE,
                  ReadyNode(IP1), ReadyNode(IP2), FALSE, a, b, <<>>, NoStreamError))

\* members that have joined, by role and node condition
InitNodes ==
    \E roleA \in Roles,
        fig \in {{"a", "b"}, {"b"}},
        ready1 \in {"True", "False", "Unknown", ""}, label1 \in BOOLEAN,
        ready2 \in {"True", "False"},
        r \in SeqsUpTo({Linked("n1"), Linked("n2"),
                        MemberShape(CloudInstanceStatusDetached, Normal, "n1")}, MaxLinked),
        b \in {<<>>, <<CloudGroup("b", 0, <<>>, <<>>)>>} :
        Load(Scenario(Gossip, CleanResolver, roleA, "Node", fig, FALSE,
                  Node(ready1, label1, <<IP1>>), Node(ready2, FALSE, <<IP2>>), FALSE,
                  <<CloudGroup("a", 1, r, <<>>)>>, b, <<>>, NoStreamError))

\* static control-plane pods
StaticShapes ==
    {PodShape("kube-system", app, IP1, FALSE, "", Running, <<>>) :
        app \in Range(masterStaticPods)}
    \cup {PodShape("kube-system", "kube-apiserver", IP2, TRUE, "", Running, <<>>),
          PodShape("default", "kube-apiserver", IP1, TRUE, "", Running, <<>>),
          PodShape("kube-system", "coredns", IP1, TRUE, "", Running, <<>>),
          PodShape("kube-system", "kube-scheduler", "10.0.0.9", TRUE, "", Running, <<>>),
          PodShape("kube-system", "kube-apiserver", IP1, TRUE, "system-node-critical",
                   PodPending, <<>>)}

InitStatic(maxPods) ==
    \E fig \in {{"a", "b"}, {"a"}}, ip2 \in {IP2, IP1},
        pods \in SeqsUpTo(StaticShapes, maxPods) :
        Load(Scenario(Gossip, CleanResolver, "ControlPlane", "ControlPlane", fig, FALSE,
                  ReadyMaster(IP1), ReadyMaster(ip2), FALSE,
                  <<CloudGroup("a", 1, <<Linked("n1")>>, <<>>)>>,
                  <<CloudGroup("b", 1, <<Linked("n2")>>, <<>>)>>,
                  pods, NoStreamError))

\* pods of every priority, phase and container readiness
ContainerLists ==
    {<<[Name |-> "c1", Ready |-> TRUE]>>,
     <<[Name |-> "c1", Ready |-> FALSE], [Name |-> "c2", Ready |-> TRUE]>>,
     <<[Name |-> "c1", Ready |-> FALSE], [Name |-> "c2", Ready |-> FALSE]>>}

ScannedShapes ==
    {PodShape("kube-system", "coredns", ip, accepted, priority, phase, containers) :
        ip \in {IP1, IP2}, accepted \in BOOLEAN,
        priority \in {"system-cluster-critical", "system-node-critical", ""},
        phase \in {PodPending, Running, PodSucceeded, "Failed", PodUnknown},
        containers \in ContainerLists}

InitScanned ==
    \E fig \in {{"a", "b"}, {"a"}},
        pods \in SeqsUpTo(ScannedShapes, MaxScanned) :
        Load(Scenario(Gossip, CleanResolver, "Node", "Node", fig, FALSE,
                  ReadyNode(IP1), ReadyNode(IP2), FALSE,
                  <<CloudGroup("a", 1, <<Linked("n1")>>, <<>>)>>,
                  <<CloudGroup("b", 1, <<Linked("n2")>>, <<>>)>>,
                  pods, NoStreamError))

\* a pod stream that breaks off, with failures already recorded
Pending1 == PodShape("kube-system", "coredns", IP1, TRUE, "system-cluster-critical",
                     PodPending, <<>>)
Healthy1 == PodShape("kube-system", "kube-apiserver", IP1, TRUE, "system-node-critical",
                     Running, <<[Name |-> "c1", Ready |-> TRUE]>>)

InitBrokenStream ==
    \E t \in 1..MaxTarget,
        pods \in {<<>>, <<Pending1>>, <<Healthy1>>, <<Pending1, Healthy1>>,
                  <<Healthy1, Pending1>>} :
        \E errAt \in 0..Len(pods) :
        Load(Scenario(Gossip, CleanResolver, "ControlPlane", "Node", {"a", "b"}, FALSE,
                  ReadyMaster(IP1), ReadyNode(IP2), FALSE,
                  <<CloudGroup("a", t, <<Linked("n1")>>, <<>>)>>, <<>>,
                  pods, errAt))

-----------------------------------------------------------------------------
(* Validate *)

Reset ==
    /\ pc = "start"
    /\ validation = EmptyValidation
    /\ readyNodes = <<>>
    /\ nodeInstanceGroupMapping = <<>>
    /\ masterWithoutPod = <<>>
    /\ nodeByAddress = <<>>
    /\ podIdx = 0
    /\ calls = {}
    /\ ret = NotReturned

Init ==
    /\ \/ InitDns
       \/ InitSizing
       \/ InitNodes
       \/ InitStatic(MaxPods)
       \/ InitScanned
       \/ InitBrokenStream
    /\ Reset
    /\ run = 1
    /\ prev = <<>>

DnsProvider(c) == IF c.provider = "external-dns" THEN "external-dns" ELSE "dns-controller"

\* the DNS gate is closed: gossip or no DNS
SkipPlaceholderCheck ==
    /\ pc = "start"
    /\ ~UsesDNS(cluster)
    /\ pc' = "listNodes"
    /\ UNCHANGED <<inputs, locals, calls, ret, run, prev>>

\* hasPlaceHolderIP and the three ways Validate goes on from it
CheckPlaceholder ==
    /\ pc = "start"
    /\ UsesDNS(cluster)
    /\ LET res == hasPlaceHolderIP(resolver) IN
        /\ calls' = IF resolver.parseOk THEN calls \cup {"LookupHost"} ELSE calls
        /\ IF res.err # NoError THEN
              /\ ret' = ReturnError(res.err)
              /\ pc' = "done"
              /\ UNCHANGED validation
           ELSE IF res.val # "" THEN
              /\ validation' = addError(validation,
                     ValidationError("dns", "apiserver",
                                     DnsMessage(DnsProvider(cluster), res.val), Nil))
              /\ ret' = ReturnReport(validation')
              /\ pc' = "done"
           ELSE
              /\ pc' = "listNodes"
              /\ UNCHANGED <<validation, ret>>
    /\ UNCHANGED <<inputs, readyNodes, nodeInstanceGroupMapping, masterWithoutPod,
                   nodeByAddress, podIdx, run, prev>>

ListNodes ==
    /\ pc = "listNodes"
    /\ calls' = calls \cup {"ListNodes"}
    /\ IF nodeList.err
       THEN ret' = ReturnError("error listing nodes") /\ pc' = "done"
       ELSE pc' = "getCloudGroups" /\ UNCHANGED ret
    /\ UNCHANGED <<inputs, locals, run, prev>>

GetCloudGroups ==
    /\ pc = "getCloudGroups"
    /\ calls' = calls \cup {"GetCloudGroups"}
    /\ IF cloud.err
       THEN ret' = ReturnError("error getting cloud groups") /\ pc' = "done"
       ELSE pc' = "validateNodes" /\ UNCHANGED ret
    /\ UNCHANGED <<inputs, locals, run, prev>>

ValidateNodes ==
    /\ pc = "validateNodes"
    /\ \E order \in Perms(DOMAIN cloud.groups) :
        LET res == validateNodes(validation, cloud.groups, order, allInstanceGroups,
                                 filterInstanceGroups, nodeList.items)
        IN /\ validation' = res.v
           /\ readyNodes' = res.readyNodes
           /\ nodeInstanceGroupMapping' = res.mapping
    /\ pc' = "collectPodFailures"
    /\ UNCHANGED <<inputs, masterWithoutPod, nodeByAddress, podIdx, calls, ret, run, prev>>

\* collectPodFailures up to the start of the pager
IndexReadyNodes ==
    /\ pc = "collectPodFailures"
    /\ LET maps == IndexNodes([masterWithoutPod |-> <<>>, nodeByAddress |-> <<>>],
                              readyNodes, nodeList.items)
       IN /\ masterWithoutPod' = maps.masterWithoutPod
          /\ nodeByAddress' = maps.nodeByAddress
    /\ calls' = calls \cup {"ListPods"}
    /\ podIdx' = 0
    /\ pc' = "pods"
    /\ UNCHANGED <<inputs, validation, readyNodes, nodeInstanceGroupMapping, ret, run, prev>>

\* the callback of EachListItem on the next pod
EachListItem ==
    /\ pc = "pods"
    /\ podIdx < Len(podStream.pods)
    /\ podStream.errAt = NoStreamError \/ podIdx < podStream.errAt
    /\ LET pod == podStream.pods[podIdx + 1] IN
        /\ masterWithoutPod' =
               StrikeStaticPod(masterWithoutPod, nodeByAddress, pod, filterPodsForValidation)
        /\ validation' =
               [validation EXCEPT !.Failures =
                   @ \o PodFailures(pod, filterPodsForValidation, nodeByAddress,
                                    nodeInstanceGroupMapping)]
    /\ podIdx' = podIdx + 1
    /\ UNCHANGED <<inputs, readyNodes, nodeInstanceGroupMapping, nodeByAddress, pc, calls,
                   ret, run, prev>>

\* a page of the pod list fails
ListPodsError ==
    /\ pc = "pods"
    /\ podIdx = podStream.errAt
    /\ ret' = ReturnPodError(validation, "error listing Pods")
    /\ pc' = "done"
    /\ UNCHANGED <<inputs, locals, calls, run, prev>>

\* the stream ends: the closing range over masterWithoutPod, and Validate returns
ReportMissingPods ==
    /\ pc = "pods"
    /\ podStream.errAt = NoStreamError
    /\ podIdx = Len(podStream.pods)
    /\ \E entries \in RangeOrders(masterWithoutPod) :
        validation' = AddMissing(validation, entries, nodeInstanceGroupMapping)
    /\ ret' = ReturnReport(validation')
    /\ pc' = "done"
    /\ UNCHANGED <<inputs, readyNodes, nodeInstanceGroupMapping, masterWithoutPod,
                   nodeByAddress, podIdx, calls, run, prev>>

Next ==
    \/ SkipPlaceholderCheck
    \/ CheckPlaceholder
    \/ ListNodes
    \/ GetCloudGroups
    \/ ValidateNodes
    \/ IndexReadyNodes
    \/ EachListItem
    \/ ListPodsError
    \/ ReportMissingPods

Spec == Init /\ [][Next]_vars

\* the caller validates the same snapshot once more
ValidateAgain ==
    /\ pc = "done"
    /\ run < MaxRuns
    /\ prev' = Append(prev, ret)
    /\ run' = run + 1
    /\ pc' = "start"
    /\ validation' = EmptyValidation
    /\ readyNodes' = <<>>
    /\ nodeInstanceGroupMapping' = <<>>
    /\ masterWithoutPod' = <<>>
    /\ nodeByAddress' = <<>>
    /\ podIdx' = 0
    /\ calls' = {}
    /\ ret' = NotReturned
    /\ UNCHANGED inputs

NextRuns == Next \/ ValidateAgain

\* the snapshots validated repeatedly: all but the longer static-pod streams
InitRuns ==
    /\ \/ InitDns
       \/ InitSizing
       \/ InitNodes
       \/ InitStatic(1)
       \/ InitScanned
       \/ InitBrokenStream
    /\ Reset
    /\ run = 1
    /\ prev = <<>>

SpecRuns == InitRuns /\ [][NextRuns]_vars

-----------------------------------------------------------------------------
(* Vocabulary of the properties *)

Failures == validation.Failures

GroupNames == {allInstanceGroups[i].Name : i \in 1..Len(allInstanceGroups)}

RoleOf(g) == RoleOfGroup(allInstanceGroups, g)

InScope(g) == g \in filterInstanceGroups

Observed == DOMAIN cloud.groups

MembersOf(k) == cloud.groups[k].Ready \o cloud.groups[k].NeedUpdate

NodeObj(n) == nodeList.items[n]

\* the number of entries of s that satisfy P
Count(s, P(_)) == Cardinality({i \in 1..Len(s) : P(s[i])})

Returned == pc = "done"

Reported == pc = "done" /\ ret.report # NoReport

\* validateNodes has run in this run
NodesValidated == pc \in {"collectPodFailures", "pods"} \/ (pc = "done" /\ "ListPods" \in calls)

\* the pod stream was read to its end and Validate returned the report
StreamCompleted == Reported /\ "ListPods" \in calls

HasPlaceholder == \E i \in 1..Len(resolver.addrs) :
                      resolver.addrs[i] \in {PlaceholderIP, PlaceholderIPv6}

PlaceholderActive == /\ cluster.dns \notin {"gossip", "none"}
                     /\ resolver.parseOk /\ resolver.lookupOk /\ HasPlaceholder

\* the ready node an address leads to: the last one appended that carries it
AddressOwner(ip) ==
    LET idx == {i \in 1..Len(readyNodes) : ip \in Range(NodeObj(readyNodes[i]).Addresses)}
    IN IF idx = {} THEN "" ELSE readyNodes[CHOOSE i \in idx : \A j \in idx : j <= i]

DerivedRole(g) ==
    LET lower == ToLowerString(RoleOf(g)) IN IF lower = "" THEN "node" ELSE lower

Recognized(role) == role = "control-plane" \/ role = "apiserver" \/ role = "node"

NotDetached(k) == {i \in 1..Len(MembersOf(k)) : MembersOf(k)[i].Status # "Detached"}

\* the pod is one collectPodFailures is to report
Unhealthy(pod) ==
    /\ PodKey(pod) \in filterPodsForValidation
    /\ pod.PriorityClassName \in {"system-cluster-critical", "system-node-critical"}
    /\ pod.Phase # "Succeeded"
    /\ \/ pod.Phase \in {"Pending", "Unknown"}
       \/ \E i \in 1..Len(pod.ContainerStatuses) : ~pod.ContainerStatuses[i].Ready

StaticPodSeen(n, app) ==
    \E i \in 1..Len(podStream.pods) :
        /\ podStream.pods[i].Namespace = "kube-system"
        /\ podStream.pods[i].App = app
        /\ AddressOwner(podStream.pods[i].HostIP) = n

-----------------------------------------------------------------------------
(* C1 *)

\* C1: no failure ever names a group the scope predicate rejects, neither as its
\* subject nor as its InstanceGroup back-reference, whatever the failure's kind.
C1_ExcludedGroupsUnreferenced ==
    \A g \in GroupNames \ filterInstanceGroups :
        \A i \in 1..Len(Failures) : Failures[i].Name # g /\ Failures[i].InstanceGroup # g

\* a node-critical pod failure was recorded for a pod on a node of a rejected group
C1_Witness ==
    /\ StreamCompleted
    /\ \E g \in (GroupNames \cap Observed) \ filterInstanceGroups :
        /\ \E i \in 1..Len(podStream.pods), j \in 1..Len(MembersOf(g)) :
              /\ Unhealthy(podStream.pods[i])
              /\ podStream.pods[i].PriorityClassName = "system-node-critical"
              /\ MembersOf(g)[j].Node # Nil
              /\ podStream.pods[i].HostIP \in Range(NodeObj(MembersOf(g)[j].Node).Addresses)
              /\ \E f \in Range(Failures) : f.Name = PodKey(podStream.pods[i])

-----------------------------------------------------------------------------
(* C2 *)

\* every observed group is at its target size and all its members have joined
\* as ready nodes of a recognized role
FleetHealthy ==
    \A k \in Observed :
        /\ Cardinality(NotDetached(k)) >= cloud.groups[k].TargetSize
        /\ \A i \in 1..Len(MembersOf(k)) :
              /\ MembersOf(k)[i].Node # Nil
              /\ NodeObj(MembersOf(k)[i].Node).Ready = "True"
              /\ Recognized(DerivedRole(cloud.groups[k].InstanceGroup))

\* C2 as stated: a healthy fleet alone makes the returned failure list empty.
C2_HealthyFleetNoFailures ==
    (Reported /\ FleetHealthy) => ret.report[1].Failures = <<>>

\* C2 as amended: a healthy fleet makes the returned failure list empty when, in
\* addition, the placeholder check did not end the run, every in-scope
\* DesiredGroup has an ObservedGroup, no pod of the stream is an unhealthy critical
\* pod the predicate accepts, and every ready node carrying the control-plane label
\* had its three static pods in the stream.
C2_HealthyClusterNoFailures ==
    (/\ Reported
     /\ FleetHealthy
     /\ ~PlaceholderActive
     /\ \A g \in GroupNames : InScope(g) => g \in Observed
     /\ \A i \in 1..Len(podStream.pods) : ~Unhealthy(podStream.pods[i])
     /\ \A i \in 1..Len(readyNodes) :
           NodeObj(readyNodes[i]).ControlPlaneLabel =>
               \A j \in 1..Len(masterStaticPods) :
                   StaticPodSeen(readyNodes[i], masterStaticPods[j]))
    => ret.report[1].Failures = <<>>

\* a run over a healthy fleet with a labelled control-plane node and its three
\* static pods returns an empty failure list
C2_Witness ==
    /\ Reported
    /\ FleetHealthy
    /\ \E g \in Observed : InScope(g) /\ MembersOf(g) # <<>>
    /\ \E i \in 1..Len(readyNodes) : NodeObj(readyNodes[i]).ControlPlaneLabel
    /\ Len(podStream.pods) >= 3
    /\ ret.report[1].Failures = <<>>

-----------------------------------------------------------------------------
(* C3 *)

\* C3: once validateNodes has run, a member of an in-scope observed group has a
\* Machine failure exactly if it has no node, its group is no bastion group, it is
\* not in the warm pool and it is not detached.
C3_MachineFailureIffExpected ==
    NodesValidated =>
        \A k \in Observed : InScope(cloud.groups[k].InstanceGroup) =>
            \A i \in 1..Len(MembersOf(k)) :
                LET m == MembersOf(k)[i] IN
                (\E f \in Range(Failures) : f.Kind = "Machine" /\ f.Name = m.ID)
                <=> (/\ m.Node = Nil
                     /\ RoleOf(cloud.groups[k].InstanceGroup) # "Bastion"
                     /\ m.State # "WarmPool"
                     /\ m.Status # "Detached")

\* a group with a warm-pool member that is not reported next to a member that is
C3_Witness ==
    /\ NodesValidated
    /\ \E k \in Observed :
        /\ InScope(cloud.groups[k].InstanceGroup)
        /\ \E i, j \in 1..Len(MembersOf(k)) :
              /\ MembersOf(k)[i].Node = Nil
              /\ MembersOf(k)[i].State = "WarmPool"
              /\ MembersOf(k)[i].Status # "Detached"
              /\ ~\E f \in Range(Failures) : f.Name = MembersOf(k)[i].ID
              /\ \E f \in Range(Failures) : f.Kind = "Machine" /\ f.Name = MembersOf(k)[j].ID

-----------------------------------------------------------------------------
(* C4 *)

IsGroupFailure(g, f) == f.Kind = "InstanceGroup" /\ f.Name = g

GroupFailures(g) == {i \in 1..Len(Failures) : IsGroupFailure(g, Failures[i])}

\* C4: once validateNodes has run, an in-scope DesiredGroup has one InstanceGroup
\* failure if it has no ObservedGroup ("missing from the cloud provider"), one
\* citing the count of non-detached members and the target size if that count is
\* below the target size, and none otherwise.
C4_GroupFailureIffMissingOrShort ==
    NodesValidated =>
        \A g \in GroupNames : InScope(g) =>
            IF g \notin Observed
            THEN /\ Cardinality(GroupFailures(g)) = 1
                 /\ \A i \in GroupFailures(g) :
                       Failures[i].Message =
                           "InstanceGroup \"" \o g \o "\" is missing from the cloud provider"
            ELSE IF Cardinality(NotDetached(g)) < cloud.groups[g].TargetSize
            THEN /\ Cardinality(GroupFailures(g)) = 1
                 /\ \A i \in GroupFailures(g) :
                       Failures[i].Message =
                           "InstanceGroup \"" \o g \o "\" did not have enough nodes "
                               \o ToString(Cardinality(NotDetached(g))) \o " vs "
                               \o ToString(cloud.groups[g].TargetSize)
            ELSE GroupFailures(g) = {}

\* a group short of its target only because one of its members is detached
C4_Witness ==
    /\ NodesValidated
    /\ \E g \in GroupNames \cap Observed :
        /\ InScope(g)
        /\ Len(MembersOf(g)) >= cloud.groups[g].TargetSize
        /\ Cardinality(NotDetached(g)) < cloud.groups[g].TargetSize
        /\ Cardinality(NotDetached(g)) > 0
        /\ GroupFailures(g) # {}

-----------------------------------------------------------------------------
(* C5 *)

IsMissingPodFailure(n, app, f) ==
    f.Kind = "Node" /\ f.Name = n /\ f.Message = MissingPodMessage(n, app)

\* C5: when the stream has completed, a ready node with the control-plane label
\* has, for each of the three static pods, one "missing" Node failure if no
\* kube-system pod with that k8s-app ran at an address of the node, and none if
\* one did, whatever the pod predicate, the pod's priority and its phase.
C5_MissingIffNotSeen ==
    StreamCompleted =>
        \A i \in 1..Len(readyNodes) : NodeObj(readyNodes[i]).ControlPlaneLabel =>
            \A j \in 1..Len(masterStaticPods) :
                LET n == readyNodes[i]
                    app == masterStaticPods[j]
                    IsMissing(f) == IsMissingPodFailure(n, app, f)
                IN Count(ret.report[1].Failures, IsMissing)
                       = IF StaticPodSeen(n, app) THEN 0 ELSE 1

\* a control-plane node whose three static pods were all rejected by the pod
\* predicate, and which is reported to miss none of them
C5_Witness ==
    /\ StreamCompleted
    /\ \E i \in 1..Len(readyNodes) :
        /\ NodeObj(readyNodes[i]).ControlPlaneLabel
        /\ \A j \in 1..Len(masterStaticPods) :
              \E p \in 1..Len(podStream.pods) :
                  /\ podStream.pods[p].App = masterStaticPods[j]
                  /\ podStream.pods[p].Namespace = "kube-system"
                  /\ AddressOwner(podStream.pods[p].HostIP) = readyNodes[i]
                  /\ PodKey(podStream.pods[p]) \notin filterPodsForValidation
        /\ ~\E f \in Range(Failures) : f.Kind = "Node" /\ f.Name = readyNodes[i]

-----------------------------------------------------------------------------
(* C6 *)

\* C6: every pod the callback has seen has one Pod failure if the predicate
\* accepts it, its priority class is critical, it has not succeeded and it is
\* pending, of unknown phase or has a container that is not ready; it has none
\* otherwise, and a pod not yet seen has none.
C6_PodFailureIffUnhealthy ==
    pc \in {"pods", "done"} =>
        \A i \in 1..Len(podStream.pods) :
            LET pod == podStream.pods[i]
                IsPodFailure(f) == f.Kind = "Pod" /\ f.Name = PodKey(pod)
            IN Count(Failures, IsPodFailure)
                   = IF i <= podIdx /\ Unhealthy(pod) THEN 1 ELSE 0

\* an accepted critical pod that succeeded with a container not ready, unreported
C6_Witness ==
    /\ StreamCompleted
    /\ \E i \in 1..Len(podStream.pods) :
        LET pod == podStream.pods[i] IN
        /\ PodKey(pod) \in filterPodsForValidation
        /\ pod.PriorityClassName = "system-node-critical"
        /\ pod.Phase = "Succeeded"
        /\ \E c \in 1..Len(pod.ContainerStatuses) : ~pod.ContainerStatuses[c].Ready
        /\ ~\E f \in Range(Failures) : f.Kind = "Pod"

-----------------------------------------------------------------------------
(* C7 *)

\* C7: with DNS-based discovery and a placeholder among the resolved addresses,
\* the run makes no call after the lookup and returns, without error, a report
\* of one dns failure and no nodes; with gossip or no DNS the lookup is never
\* made and no dns failure is ever recorded.
C7_PlaceholderShortCircuits ==
    /\ PlaceholderActive =>
          /\ calls \subseteq {"LookupHost"}
          /\ Returned =>
                /\ ret.err = NoError
                /\ ret.report # NoReport
                /\ Len(ret.report[1].Failures) = 1
                /\ ret.report[1].Failures[1].Kind = "dns"
                /\ ret.report[1].Nodes = <<>>
    /\ cluster.dns \in {"gossip", "none"} =>
          /\ "LookupHost" \notin calls
          /\ \A i \in 1..Len(Failures) : Failures[i].Kind # "dns"

\* the host resolves to the IPv4 placeholder alone and the run has returned
C7_Witness ==
    /\ Returned
    /\ cluster.dns = "dns"
    /\ resolver.lookupOk
    /\ resolver.addrs = <<PlaceholderIP>>
    /\ Len(ret.report[1].Failures) = 1

-----------------------------------------------------------------------------
(* C8 *)

\* a collaborator call of this run failed
CallFailed ==
    \/ cluster.dns \notin {"gossip", "none"} /\ (~resolver.parseOk \/ ~resolver.lookupOk)
    \/ "ListNodes" \in calls /\ nodeList.err
    \/ "GetCloudGroups" \in calls /\ cloud.err
    \/ "ListPods" \in calls /\ podStream.errAt # NoStreamError

\* C8: Validate returns an error and no report when a collaborator call failed,
\* and a report and no error when none did; it never returns both or neither.
C8_ErrorOrReport ==
    Returned =>
        /\ \/ ret.err # NoError /\ ret.report = NoReport
           \/ ret.err = NoError /\ ret.report # NoReport
        /\ CallFailed => ret.err # NoError /\ ret.report = NoReport
        /\ ~CallFailed => ret.report # NoReport

\* the pod stream failed after failures had been recorded, and no report came back
C8_Witness ==
    /\ Returned
    /\ "ListPods" \in calls
    /\ podStream.errAt # NoStreamError
    /\ podIdx >= 1
    /\ \E f \in Range(Failures) : f.Kind = "Pod"
    /\ \E f \in Range(Failures) : f.Kind = "InstanceGroup"
    /\ ret.report = NoReport

-----------------------------------------------------------------------------
(* C9 *)

\* the phase a failure is recorded in
PhaseOf(f) ==
    CASE f.Kind = "dns" -> 1
      [] f.Kind \in {"InstanceGroup", "Machine"} -> 2
      [] f.Kind = "Pod" -> 3
      [] f.Kind = "Node" ->
            IF \E j \in 1..Len(masterStaticPods) :
                   f.Message = MissingPodMessage(f.Name, masterStaticPods[j])
            THEN 4 ELSE 2

FailuresInPhaseOrder ==
    \A i, j \in 1..Len(Failures) : i < j => PhaseOf(Failures[i]) <= PhaseOf(Failures[j])

\* C9: the failure list is in the order of the phases, and a run over the same
\* snapshot returns what the run before it returned: the same failures and nodes
\* in the same order.
C9_StableAcrossRuns ==
    /\ FailuresInPhaseOrder
    /\ (Returned /\ prev # <<>>) => ret = prev[Len(prev)]

-----------------------------------------------------------------------------
(* C10 *)

IsNotReadyFailure(n, g, f) ==
    /\ f.Kind = "Node"
    /\ f.Name = n
    /\ f.InstanceGroup = g
    /\ f.Message = "node \"" \o n \o "\" of role \"" \o DerivedRole(g) \o "\" is not ready"

\* the linked members of the in-scope observed groups whose role is recognized
RecognizedLinks ==
    {<<k, i>> \in Observed \X (1..(MaxReady + MaxLinked + 2)) :
        /\ i <= Len(MembersOf(k))
        /\ InScope(cloud.groups[k].InstanceGroup)
        /\ MembersOf(k)[i].Node # Nil
        /\ Recognized(DerivedRole(cloud.groups[k].InstanceGroup))}

\* C10: once validateNodes has run, a member of an in-scope observed group that
\* has a node is in the node list exactly if its role is control-plane, apiserver
\* or node, has an "is not ready" failure exactly if its role is one of these and
\* its node has no Ready condition of status True, and is among the ready nodes
\* exactly if its node is ready.
C10_NodeClassification ==
    NodesValidated =>
        /\ \A k \in Observed : InScope(cloud.groups[k].InstanceGroup) =>
              \A i \in 1..Len(MembersOf(k)) : MembersOf(k)[i].Node # Nil =>
                  LET n == MembersOf(k)[i].Node
                      g == cloud.groups[k].InstanceGroup
                      role == DerivedRole(g)
                  IN /\ (\E vn \in Range(validation.Nodes) : vn.Name = n /\ vn.Role = role)
                            <=> Recognized(role)
                     /\ (\E f \in Range(Failures) : IsNotReadyFailure(n, g, f))
                            <=> (Recognized(role) /\ NodeObj(n).Ready # "True")
                     /\ (n \in Range(readyNodes)) <=> (NodeObj(n).Ready = "True")
        /\ Len(validation.Nodes) = Cardinality(RecognizedLinks)

\* a node of role "edge" that is not ready: no failure, no entry in the node list
C10_Witness ==
    /\ NodesValidated
    /\ \E k \in Observed :
        /\ InScope(cloud.groups[k].InstanceGroup)
        /\ DerivedRole(cloud.groups[k].InstanceGroup) = "edge"
        /\ \E i \in 1..Len(MembersOf(k)) :
              /\ MembersOf(k)[i].Node # Nil
              /\ NodeObj(MembersOf(k)[i].Node).Ready = "False"
    /\ Failures = <<>>
    /\ validation.Nodes = <<>>

====
